---- MODULE Spec2Model ----
(***************************************************************************)
(* Model of the brainfuck interpreter of src/bin/bfi.rs: InterpreterState  *)
(* (tape, tape pointer, lazily materialized instructions, instruction      *)
(* pointer, the three character streams) and main's driver loop            *)
(* `while interpreter.repl().is_ok() { }`.  One action is one call of      *)
(* repl(): the fetch loop, the dispatch of one instruction and the final   *)
(* advance of the instruction pointer.                                     *)
(*                                                                         *)
(* A tape cell is a u32.  It is kept at full width as a pair <<hi, lo>> of *)
(* 16-bit halves (value hi * 65536 + lo).  The tape pointer is a usize;    *)
(* the model keeps its wrapping arithmetic but at a width of AddrBits      *)
(* bits, and the initial tape length (65536 in the source) is InitLen.     *)
(*                                                                         *)
(* writer is the sink W that InterpreterState owns.  The trace line that   *)
(* repl prints with println! before each dispatch goes to the process's    *)
(* standard output, not through writer, and is not part of the model.      *)
(***************************************************************************)
EXTENDS Integers, Sequences, FiniteSets, TLC

\* ------------------------------------------------------------------ bounds
MaxSrcLen == 3      \* longest raw program drawn exhaustively
MaxInputLen == 1    \* longest input stream
MaxCount == 2       \* largest n of the program  +^n [-] .
MaxOut == 2         \* steps are taken while fewer units were written
MaxCell == 4        \* + and - keep a cell within this distance of 0
AddrBits == 3       \* width of the tape pointer (usize) in the model
InitLen == 2        \* initial tape length in the model

\* --------------------------------------------------------------- constants
Half == 65536           \* 2^16: a u32 cell is <<hi, lo>>, each below Half
SurrogateLo == 55296    \* 0xD800, first value char::from_u32 rejects
SurrogateHi == 57344    \* 0xE000, first value accepted again
MaxPlane == 16          \* 0x10FFFF = <<16, 65535>> is the last scalar

AddrSpace == 2 ^ AddrBits
Zero == <<0, 0>>
BAD == "BAD"            \* an item of a stream that does not decode as UTF-8

\* ------------------------------------------------------------------ inputs
RawChars == {">", "<", "+", "-", ".", ",", "[", "]", "x", BAD}
NotUtf8 == <<-1, -1>>   \* an item of the input that does not decode as UTF-8
InputChars == {<<0, 2>>, NotUtf8}

SeqsUpTo(S, n) == UNION {[1..k -> S] : k \in 0..n}

CountProgram(n) ==
    [i \in 1..(n + 4) |-> IF i <= n THEN "+" ELSE <<"[", "-", "]", ".">>[i - n]]

\* n times '+', then '.'
StraightProgram(n) == [i \in 1..(n + 1) |-> IF i <= n THEN "+" ELSE "."]

\* 2^W times '>'
LapProgram == [i \in 1..AddrSpace |-> ">"]

Programs ==
    SeqsUpTo(RawChars, MaxSrcLen) \cup {CountProgram(n) : n \in 1..MaxCount}
        \cup {StraightProgram(n) : n \in 1..(MaxCount + 1)}
        \cup {LapProgram}

Inputs == SeqsUpTo(InputChars, MaxInputLen)

\* ------------------------------------------------------------------- state
VARIABLES
    data,                 \* Vec<u32>: the tape storage
    pointer,              \* usize: the tape pointer
    instructions,         \* Vec<char>: the materialized instructions
    instruction_pointer,  \* usize: index of the next instruction
    file,                 \* the items the program file decodes to
    read_iter,            \* number of items of file consumed by read_iter
    stdin,                \* the items the input stream decodes to
    input_iter,           \* number of items of stdin consumed by input_iter
    writer,               \* the units written to the output sink
    status,               \* "ok" while main's loop runs, else how it ended
    written,              \* history: addresses targeted by + - or a stored ,
    last                  \* history: the last call of repl

vars == <<data, pointer, instructions, instruction_pointer, file, read_iter,
          stdin, input_iter, writer, status, written, last>>

\* 0-based indexing of a Vec
At(v, i) == v[i + 1]

\* -------------------------------------------------------------- u32 cells
wrapping_add(c) ==
    IF c[2] + 1 < Half THEN <<c[1], c[2] + 1>>
    ELSE <<(c[1] + 1) % Half, 0>>

wrapping_sub(c) ==
    IF c[2] > 0 THEN <<c[1], c[2] - 1>>
    ELSE <<(c[1] + Half - 1) % Half, Half - 1>>

from_u32(c) ==
    \/ c[1] = 0 /\ (c[2] < SurrogateLo \/ c[2] >= SurrogateHi)
    \/ c[1] >= 1 /\ c[1] <= MaxPlane

\* distance of a cell from 0 on the u32 circle, for the MaxCell cap
NearZero(c) ==
    \/ c[1] = 0 /\ c[2] <= MaxCell
    \/ c[1] = Half - 1 /\ c[2] >= Half - MaxCell

\* ------------------------------------------------------------------- tape
\* is_usable that also accepts the letter x
is_usable_lax(c) == c \in {">", "<", "+", "-", ".", ",", "[", "]", "x"}

is_usable(c) == c \in {">", "<", "+", "-", ".", ",", "[", "]"}

new_data == [i \in 1..InitLen |-> Zero]

\* increment that stops at the last address
increment_saturating(p) == IF p + 1 < AddrSpace THEN p + 1 ELSE p

increment(p) == (p + 1) % AddrSpace

decrement(p) == (p + AddrSpace - 1) % AddrSpace

dereference(d, p) == IF p >= Len(d) THEN Zero ELSE At(d, p)

resize(d, n, v) == [i \in 1..n |-> IF i <= Len(d) THEN d[i] ELSE v]

Max(a, b) == IF a >= b THEN a ELSE b

\* grow with a resize that fills the new cells with 1
grow_dirty(d) == resize(d, Max(1, Len(d)) * 2, <<0, 1>>)

grow(d) == resize(d, Max(1, Len(d)) * 2, Zero)

\* length * 2 does not fit the usize: a panic with overflow checks, and
\* without them a resize to the wrapped length and a loop that never ends
\* (on a real machine the allocation of resize gives up before that length
\* is reached, which ends the step the same way: it does not return)
GrowOverflows(d) == Max(1, Len(d)) * 2 >= AddrSpace

RECURSIVE dereference_mut(_, _)
dereference_mut(d, p) ==
    IF p < Len(d) THEN [data |-> d, fault |-> FALSE]
    ELSE IF GrowOverflows(d) THEN [data |-> d, fault |-> TRUE]
    ELSE dereference_mut(grow(d), p)

Store(d, p, v) == [d EXCEPT ![p + 1] = v]

\* ----------------------------------------------------- instruction stream
\* read_file storing the new symbol in place of the materialized ones
RECURSIVE read_file_reset(_, _)
read_file_reset(ins, pos) ==
    IF pos >= Len(file)
    THEN [ins |-> ins, pos |-> pos, err |-> "exhausted"]
    ELSE LET c == file[pos + 1] IN
         IF c = BAD
         THEN [ins |-> ins, pos |-> pos + 1, err |-> "invalid_data"]
         ELSE IF is_usable(c)
         THEN [ins |-> <<c>>, pos |-> pos + 1, err |-> "none"]
         ELSE read_file_reset(ins, pos + 1)

\* one call of read_file on materialized instructions ins with pos items of
\* the file consumed
RECURSIVE read_file(_, _)
read_file(ins, pos) ==
    IF pos >= Len(file)
    THEN [ins |-> ins, pos |-> pos, err |-> "exhausted"]
    ELSE LET c == file[pos + 1] IN
         IF c = BAD
         THEN [ins |-> ins, pos |-> pos + 1, err |-> "invalid_data"]
         ELSE IF is_usable(c)
         THEN [ins |-> Append(ins, c), pos |-> pos + 1, err |-> "none"]
         ELSE read_file(ins, pos + 1)

\* the fetch loop of repl
RECURSIVE Fetch(_, _, _)
Fetch(ins, pos, ip) ==
    IF ip < Len(ins) THEN [ins |-> ins, pos |-> pos, err |-> "none"]
    ELSE LET r == read_file(ins, pos) IN
         IF r.err # "none" THEN r ELSE Fetch(r.ins, r.pos, ip)

\* ------------------------------------------------------------------ jumps
\* the indices the forward scan of jump_if_zero yields: offsets i into the
\* slice instructions[ip + 1..] at which a ']' stands
ForwardMatches(ins, ip) ==
    {i \in 0..(Len(ins) - ip - 2) : At(ins, ip + 1 + i) = "]"}

\* the indices the backward scan of jump_if_nonzero yields: offsets i into
\* the reversed slice instructions[..ip] at which a '[' stands
BackwardMatches(ins, ip) ==
    {i \in 0..(ip - 1) : At(ins, ip - 1 - i) = "["}

Min(S) == CHOOSE m \in S : \A n \in S : m <= n

\* the loop of jump_if_zero's None arm, ending without an error when the
\* pull fails
RECURSIVE PullUntilCloseLenient(_, _)
PullUntilCloseLenient(ins, pos) ==
    IF At(ins, Len(ins) - 1) = "]"
    THEN [ins |-> ins, pos |-> pos, err |-> "none"]
    ELSE LET r == read_file(ins, pos) IN
         IF r.err # "none" THEN [r EXCEPT !.err = "none"]
         ELSE PullUntilCloseLenient(r.ins, r.pos)

\* the loop of jump_if_zero's None arm
RECURSIVE PullUntilClose(_, _)
PullUntilClose(ins, pos) ==
    IF At(ins, Len(ins) - 1) = "]"
    THEN [ins |-> ins, pos |-> pos, err |-> "none"]
    ELSE LET r == read_file(ins, pos) IN
         IF r.err # "none" THEN r ELSE PullUntilClose(r.ins, r.pos)

\* jump_if_zero adding the offset of the ']' counted from the '[' plus one
jump_if_zero_overshoot(ins, pos, ip, d, p) ==
    IF dereference(d, p) # Zero
    THEN [ip |-> ip, ins |-> ins, pos |-> pos, err |-> "none"]
    ELSE IF ForwardMatches(ins, ip) # {}
    THEN [ip |-> ip + Min(ForwardMatches(ins, ip)) + 2, ins |-> ins,
          pos |-> pos, err |-> "none"]
    ELSE LET r == PullUntilClose(ins, pos) IN
         [ip |-> ip, ins |-> r.ins, pos |-> r.pos, err |-> r.err]

\* jump_if_zero on the fetched instructions: the instruction pointer it
\* leaves, the instructions and the file position, and its error
jump_if_zero(ins, pos, ip, d, p) ==
    IF dereference(d, p) # Zero
    THEN [ip |-> ip, ins |-> ins, pos |-> pos, err |-> "none"]
    ELSE IF ForwardMatches(ins, ip) # {}
    THEN [ip |-> ip + Min(ForwardMatches(ins, ip)), ins |-> ins, pos |-> pos,
          err |-> "none"]
    ELSE LET r == PullUntilClose(ins, pos) IN
         [ip |-> ip, ins |-> r.ins, pos |-> r.pos, err |-> r.err]

\* jump_if_nonzero restarting the program when no '[' is found
jump_if_nonzero_restart(ins, ip, d, p) ==
    IF dereference(d, p) = Zero THEN ip
    ELSE IF BackwardMatches(ins, ip) # {}
    THEN ip - Min(BackwardMatches(ins, ip))
    ELSE 0

\* jump_if_nonzero: the instruction pointer it leaves
jump_if_nonzero(ins, ip, d, p) ==
    IF dereference(d, p) = Zero THEN ip
    ELSE IF BackwardMatches(ins, ip) # {}
    THEN ip - Min(BackwardMatches(ins, ip))
    ELSE ip

\* -------------------------------------------------------------------- I/O
\* write without the check of char::from_u32
write_unchecked(out, c, sink_ok) ==
    IF sink_ok THEN Append(out, c) ELSE out

\* write sending the unit twice
write_twice(out, c, sink_ok) ==
    IF ~from_u32(c) THEN out
    ELSE IF sink_ok THEN Append(Append(out, c), c)
    ELSE out

\* write: the units in the sink after writing cell c; sink_ok says whether
\* the sink accepts the unit
write(out, c, sink_ok) ==
    IF ~from_u32(c) THEN out
    ELSE IF sink_ok THEN Append(out, c)
    ELSE out

\* read taking the mutable cell before it asks the input for a character
read_eager(d, p, ipos) ==
    LET m == dereference_mut(d, p) IN
    IF ipos >= Len(stdin)
    THEN [data |-> m.data, ipos |-> ipos, err |-> "exhausted",
          fault |-> FALSE]
    ELSE LET c == stdin[ipos + 1] IN
         IF c = NotUtf8
         THEN [data |-> m.data, ipos |-> ipos + 1, err |-> "invalid_data",
               fault |-> FALSE]
         ELSE IF m.fault
              THEN [data |-> d, ipos |-> ipos + 1, err |-> "none",
                    fault |-> TRUE]
              ELSE [data |-> Store(m.data, p, c), ipos |-> ipos + 1,
                    err |-> "none", fault |-> FALSE]

\* read: the tape, the input position and the error
read(d, p, ipos) ==
    IF ipos >= Len(stdin)
    THEN [data |-> d, ipos |-> ipos, err |-> "exhausted", fault |-> FALSE]
    ELSE LET c == stdin[ipos + 1] IN
         IF c = NotUtf8
         THEN [data |-> d, ipos |-> ipos + 1, err |-> "invalid_data",
               fault |-> FALSE]
         ELSE LET m == dereference_mut(d, p) IN
              IF m.fault
              THEN [data |-> d, ipos |-> ipos + 1, err |-> "none",
                    fault |-> TRUE]
              ELSE [data |-> Store(m.data, p, c), ipos |-> ipos + 1,
                    err |-> "none", fault |-> FALSE]

\* ---------------------------------------------------------------- initial
NoCall ==
    [op |-> "none", ip |-> 0, pointer |-> 0, data |-> new_data,
     pre_ins |-> <<>>, ins |-> <<>>, pos |-> 0, fpos |-> 0, out |-> <<>>,
     sink_ok |-> TRUE]

Init ==
    /\ data = new_data
    /\ pointer = 0
    /\ instructions = <<>>
    /\ instruction_pointer = 0
    /\ file \in Programs
    /\ read_iter = 0
    /\ stdin \in Inputs
    /\ input_iter = 0
    /\ writer = <<>>
    /\ status = "ok"
    /\ written = {}
    /\ last = NoCall

\* ------------------------------------------------------------------- repl
Fetched == Fetch(instructions, read_iter, instruction_pointer)

\* main calls repl while the previous call returned Ok
Calls == status = "ok" /\ Len(writer) < MaxOut

Dispatches(c) ==
    /\ Calls
    /\ Fetched.err = "none"
    /\ At(Fetched.ins, instruction_pointer) = c

Call(c, sink_ok) ==
    [op |-> c, ip |-> instruction_pointer, pointer |-> pointer,
     data |-> data, pre_ins |-> instructions, ins |-> Fetched.ins,
     pos |-> read_iter, fpos |-> Fetched.pos, out |-> writer,
     sink_ok |-> sink_ok]

\* the fetch loop returns the error of read_file
repl_fetch_err ==
    /\ Calls
    /\ Fetched.err # "none"
    /\ instructions' = Fetched.ins
    /\ read_iter' = Fetched.pos
    /\ status' = Fetched.err
    /\ last' = [Call("none", TRUE) EXCEPT !.ins = Fetched.ins]
    /\ UNCHANGED <<data, pointer, instruction_pointer, file, stdin,
                   input_iter, writer, written>>

\* '>'
repl_increment ==
    /\ Dispatches(">")
    /\ instructions' = Fetched.ins
    /\ read_iter' = Fetched.pos
    /\ pointer' = increment(pointer)
    /\ instruction_pointer' = instruction_pointer + 1
    /\ last' = Call(">", TRUE)
    /\ UNCHANGED <<data, file, stdin, input_iter, writer, status, written>>

\* '<'
repl_decrement ==
    /\ Dispatches("<")
    /\ instructions' = Fetched.ins
    /\ read_iter' = Fetched.pos
    /\ pointer' = decrement(pointer)
    /\ instruction_pointer' = instruction_pointer + 1
    /\ last' = Call("<", TRUE)
    /\ UNCHANGED <<data, file, stdin, input_iter, writer, status, written>>

\* the tape, the instruction pointer and the status after storing v through
\* dereference_mut and advancing
StoreAndAdvance(v) ==
    LET m == dereference_mut(data, pointer) IN
    IF m.fault
    THEN /\ status' \in {"panic", "hang"}
         /\ UNCHANGED <<data, instruction_pointer, written>>
    ELSE /\ data' = Store(m.data, pointer, v)
         /\ instruction_pointer' = instruction_pointer + 1
         /\ written' = written \cup {pointer}
         /\ UNCHANGED status

\* '+'
repl_add ==
    /\ Dispatches("+")
    /\ NearZero(wrapping_add(dereference(data, pointer)))
    /\ instructions' = Fetched.ins
    /\ read_iter' = Fetched.pos
    /\ last' = Call("+", TRUE)
    /\ StoreAndAdvance(wrapping_add(dereference(data, pointer)))
    /\ UNCHANGED <<pointer, file, stdin, input_iter, writer>>

\* '-'
repl_sub ==
    /\ Dispatches("-")
    /\ NearZero(wrapping_sub(dereference(data, pointer)))
    /\ instructions' = Fetched.ins
    /\ read_iter' = Fetched.pos
    /\ last' = Call("-", TRUE)
    /\ StoreAndAdvance(wrapping_sub(dereference(data, pointer)))
    /\ UNCHANGED <<pointer, file, stdin, input_iter, writer>>

\* '.' reading its cell through dereference_mut, which grows the storage
repl_write_growing ==
    /\ Dispatches(".")
    /\ ~dereference_mut(data, pointer).fault
    /\ \E sink_ok \in BOOLEAN :
          /\ writer' = write(writer, dereference(data, pointer), sink_ok)
          /\ last' = Call(".", sink_ok)
    /\ instructions' = Fetched.ins
    /\ read_iter' = Fetched.pos
    /\ instruction_pointer' = instruction_pointer + 1
    /\ data' = dereference_mut(data, pointer).data
    /\ UNCHANGED <<pointer, file, stdin, input_iter, status, written>>

\* '.'
repl_write ==
    /\ Dispatches(".")
    /\ \E sink_ok \in BOOLEAN :
          /\ writer' = write(writer, dereference(data, pointer), sink_ok)
          /\ last' = Call(".", sink_ok)
    /\ instructions' = Fetched.ins
    /\ read_iter' = Fetched.pos
    /\ instruction_pointer' = instruction_pointer + 1
    /\ UNCHANGED <<data, pointer, file, stdin, input_iter, status, written>>

\* ','
repl_read ==
    /\ Dispatches(",")
    /\ instructions' = Fetched.ins
    /\ read_iter' = Fetched.pos
    /\ last' = Call(",", TRUE)
    /\ LET r == read(data, pointer, input_iter) IN
       /\ input_iter' = r.ipos
       /\ IF r.fault
          THEN /\ status' \in {"panic", "hang"}
               /\ UNCHANGED <<data, instruction_pointer, written>>
          ELSE IF r.err # "none"
          THEN /\ status' = r.err
               /\ data' = r.data
               /\ UNCHANGED <<instruction_pointer, written>>
          ELSE /\ data' = r.data
               /\ instruction_pointer' = instruction_pointer + 1
               /\ written' = written \cup {pointer}
               /\ UNCHANGED status
    /\ UNCHANGED <<pointer, file, stdin, writer>>

\* '['
repl_jump_if_zero ==
    /\ Dispatches("[")
    /\ last' = Call("[", TRUE)
    /\ LET j == jump_if_zero(Fetched.ins, Fetched.pos, instruction_pointer,
                             data, pointer) IN
       /\ instructions' = j.ins
       /\ read_iter' = j.pos
       /\ IF j.err # "none"
          THEN /\ status' = j.err
               /\ UNCHANGED instruction_pointer
          ELSE /\ instruction_pointer' = j.ip + 1
               /\ UNCHANGED status
    /\ UNCHANGED <<data, pointer, file, stdin, input_iter, writer, written>>

\* ']'
repl_jump_if_nonzero ==
    /\ Dispatches("]")
    /\ instructions' = Fetched.ins
    /\ read_iter' = Fetched.pos
    /\ instruction_pointer' =
          jump_if_nonzero(Fetched.ins, instruction_pointer, data, pointer) + 1
    /\ last' = Call("]", TRUE)
    /\ UNCHANGED <<data, pointer, file, stdin, input_iter, writer, status,
                   written>>

Next ==
    \/ repl_fetch_err
    \/ repl_increment
    \/ repl_decrement
    \/ repl_add
    \/ repl_sub
    \/ repl_write
    \/ repl_read
    \/ repl_jump_if_zero
    \/ repl_jump_if_nonzero

Spec == Init /\ [][Next]_vars

\* the driver loop calls repl again as long as the last call returned Ok
FairSpec == Init /\ [][Next]_vars /\ WF_vars(Next)

TypeOK ==
    /\ pointer \in 0..(AddrSpace - 1)
    /\ instruction_pointer \in 0..Len(instructions)
    /\ read_iter \in 0..Len(file)
    /\ input_iter \in 0..Len(stdin)
    /\ status \in {"ok", "exhausted", "invalid_data", "panic", "hang"}
\* ================================================================= claims
\* vocabulary: the last call of repl, seen from the state it left
LastCell == dereference(last.data, last.pointer)

Returned == status = "ok"

Failed == status \in {"exhausted", "invalid_data"}

Unchanged == data = last.data /\ pointer = last.pointer

Alphabet == {">", "<", "+", "-", ".", ",", "[", "]"}

\* positions of '[' in the instructions at dispatch before the dispatched one
OpensBefore == {k \in 0..(last.ip - 1) : At(last.ins, k) = "["}

\* positions of ']' after the dispatched one in instructions v
ClosesAfter(v) == {j \in (last.ip + 1)..(Len(v) - 1) : At(v, j) = "]"}

Greatest(S) == CHOOSE m \in S : \A n \in S : m >= n

Least(S) == CHOOSE m \in S : \A n \in S : m <= n

\* the items of the file not consumed when the instruction was dispatched
RestAtDispatch == SubSeq(file, last.fpos + 1, Len(file))

Occurs(c, v) == \E i \in 1..Len(v) : v[i] = c

\* C1: a step that dispatches ']' on a nonzero cell with the nearest '['
\* before the instruction pointer at position k leaves the instruction
\* pointer at k + 1 and the tape and the tape pointer unchanged.
C1_BackwardJumpTarget ==
    (last.op = "]" /\ LastCell # Zero /\ OpensBefore # {}) =>
        /\ instruction_pointer = Greatest(OpensBefore) + 1
        /\ Unchanged

\* C2: a step that dispatches '[' on a zero cell with no ']' materialized
\* after the instruction pointer, and that finds a ']' later in the source,
\* pulls up to that ']' and leaves the instruction pointer right after it,
\* so that nothing between the '[' and the ']' is dispatched.
C2_LoopSkipLookahead ==
    (last.op = "[" /\ LastCell = Zero /\ ClosesAfter(last.ins) = {}
       /\ Occurs("]", RestAtDispatch) /\ Returned) =>
        /\ At(instructions, Len(instructions) - 1) = "]"
        /\ instruction_pointer = Len(instructions)
        /\ Unchanged

\* C3: a step that dispatches '[' on a zero cell with the first ']' of the
\* already materialized instructions after the instruction pointer at
\* position j leaves the instruction pointer at j + 1, pulls nothing and
\* leaves the tape and the tape pointer unchanged.
C3_ForwardJumpTarget ==
    (last.op = "[" /\ LastCell = Zero /\ ClosesAfter(last.pre_ins) # {}) =>
        /\ instruction_pointer = Least(ClosesAfter(last.pre_ins)) + 1
        /\ instructions = last.pre_ins
        /\ read_iter = last.pos
        /\ Unchanged

\* the case of C4: '[' on a zero cell, no ']' materialized after it and none
\* left in the source
UnmatchedOpen ==
    /\ last.op = "["
    /\ LastCell = Zero
    /\ ClosesAfter(last.ins) = {}
    /\ ~Occurs("]", RestAtDispatch)

\* C4 as stated: on an unmatched '[' on a zero cell the step pulls the whole
\* remainder of the source and returns success with the instruction pointer
\* past the end of the materialized instructions.
C4_UnmatchedOpenReturnsOk ==
    UnmatchedOpen =>
        /\ read_iter = Len(file)
        /\ Returned
        /\ instruction_pointer >= Len(instructions)

\* C4 amended: on an unmatched '[' on a zero cell the step itself returns
\* the error of the pull that fails: the exhaustion error after the whole
\* remainder of the source was pulled, or the decode error met before the
\* end; the instruction pointer stays at the '[' and the tape and the tape
\* pointer are unchanged.
C4_UnmatchedOpenReturnsError ==
    UnmatchedOpen =>
        /\ IF Occurs(BAD, RestAtDispatch)
           THEN status = "invalid_data" /\ file[read_iter] = BAD
                /\ ~Occurs(BAD, SubSeq(file, last.fpos + 1, read_iter - 1))
           ELSE status = "exhausted" /\ read_iter = Len(file)
        /\ instruction_pointer = last.ip
        /\ At(instructions, instruction_pointer) = "["
        /\ Unchanged

C4_Witness ==
    /\ UnmatchedOpen
    /\ status = "exhausted"
    /\ read_iter = Len(file)
    /\ Len(instructions) > Len(last.ins)

\* C5: the program of n '+' followed by [-]. , run against a sink that
\* accepts what is written, eventually ends with the exhaustion error of the
\* step after '.', having written exactly one unit, U+0000, with cell 0
\* equal to 0.
C5_CountingLoopTerminates ==
    (file \in {CountProgram(n) : n \in 1..MaxCount}) =>
        <>(\/ ~last.sink_ok
           \/ /\ status = "exhausted"
              /\ writer = <<Zero>>
              /\ At(data, 0) = Zero
              /\ instruction_pointer = Len(file))

\* C6: a step that returns an error leaves the tape contents, the tape
\* storage length, the tape pointer and the instruction pointer as they were
\* before the step.
C6_ErrorsApplyNoEffect ==
    Failed =>
        /\ data = last.data
        /\ Len(data) = Len(last.data)
        /\ pointer = last.pointer
        /\ instruction_pointer = last.ip

\* ',' against an exhausted input with the tape pointer beyond the storage
C6_Witness ==
    /\ status = "exhausted"
    /\ last.op = ","
    /\ input_iter = Len(stdin)
    /\ pointer >= Len(data)

\* the unicode scalar values: 0..0xD7FF and 0xE000..0x10FFFF
ValidScalar(c) ==
    \/ c[1] = 0 /\ c[2] \in (0..55295) \cup (57344..65535)
    \/ c[1] \in 1..16

C8_UnmatchedCloseNonFatal ==
    (last.op = "]" /\ (LastCell = Zero \/ OpensBefore = {})) =>
        /\ Returned
        /\ instruction_pointer = last.ip + 1
        /\ Unchanged
        /\ instructions = last.ins
        /\ read_iter = last.fpos

C8_Witness ==
    /\ last.op = "]"
    /\ LastCell # Zero
    /\ OpensBefore = {}
    /\ last.ip > 0

\* the symbols of the alphabet among the items v, in order
RECURSIVE Symbols(_)
Symbols(v) ==
    IF v = <<>> THEN <<>>
    ELSE IF Head(v) \in Alphabet THEN <<Head(v)>> \o Symbols(Tail(v))
    ELSE Symbols(Tail(v))

\* C9: the materialized instructions are the symbols of the alphabet among
\* the items of the source consumed so far, in the original order; and a
\* step whose fetch had to pull and succeeded appended exactly one symbol
\* before the dispatch.
C9_FilteringLaw ==
    /\ instructions = Symbols(SubSeq(file, 1, read_iter))
    /\ (last.op # "none" /\ last.ip >= Len(last.pre_ins)) =>
          Len(last.ins) = Len(last.pre_ins) + 1

\* a character outside the alphabet was consumed before a symbol
C9_Witness ==
    \E i \in 1..read_iter : \E j \in 1..read_iter :
        /\ i < j
        /\ file[i] = "x"
        /\ file[j] \in Alphabet
        /\ Len(instructions) < read_iter

\* C10: every address that was never the target of a '+', a '-' or a stored
\* ',' reads 0, inside and beyond the storage.
C10_UnwrittenReadZero ==
    \A a \in 0..(AddrSpace - 1) :
        a \notin written =>
            IF a < Len(data) THEN At(data, a) = Zero
            ELSE dereference(data, a) = Zero

\* the storage has grown and holds a cell that was never written
C10_Witness ==
    /\ Len(data) > InitLen
    /\ written # {}
    /\ \E a \in InitLen..(Len(data) - 1) : a \notin written
\* C11: a step that dispatches '>', '<', '.', '[' or ']' leaves the storage
\* length and every cell unchanged, also with the tape pointer beyond the
\* storage; the storage differs from what it was before the last step only
\* after a '+', a '-' or a ',' that returned success.
C11_ReadsAndMovesNeverGrow ==
    /\ last.op \in {">", "<", ".", "[", "]"} =>
          Len(data) = Len(last.data) /\ data = last.data
    /\ data # last.data => last.op \in {"+", "-", ","} /\ Returned

\* '.' was dispatched with the tape pointer beyond the storage
C11_Witness ==
    /\ last.op = "."
    /\ last.pointer >= Len(last.data)
    /\ Len(data) = InitLen
    /\ Returned
\* (v + 1) mod 2^32 and (v - 1) mod 2^32 on a cell <<hi, lo>>
Succ32(c) ==
    IF c = <<65535, 65535>> THEN <<0, 0>>
    ELSE IF c[2] = 65535 THEN <<c[1] + 1, 0>>
    ELSE <<c[1], c[2] + 1>>

Pred32(c) ==
    IF c = <<0, 0>> THEN <<65535, 65535>>
    ELSE IF c[2] = 0 THEN <<c[1] - 1, 65535>>
    ELSE <<c[1], c[2] - 1>>

\* every address but the one the last step pointed at reads as before
OthersKept ==
    \A a \in 0..(AddrSpace - 1) :
        a # last.pointer => dereference(data, a) = dereference(last.data, a)

\* C12: a step that dispatches '+' or '-' returns without error and leaves
\* the current cell holding (old value + 1) mod 2^32 or (old value - 1)
\* mod 2^32, so 0 - 1 is 2^32 - 1 and (2^32 - 1) + 1 is 0; no other cell
\* and not the tape pointer changes.
C12_CellArithmeticWraps ==
    last.op \in {"+", "-"} =>
        /\ Returned
        /\ dereference(data, last.pointer) =
              IF last.op = "+" THEN Succ32(LastCell) ELSE Pred32(LastCell)
        /\ OthersKept
        /\ pointer = last.pointer
\* C13: a step that dispatches '>' returns success with the tape pointer at
\* (pointer + 1) mod 2^W, and one that dispatches '<' with it at
\* (pointer - 1) mod 2^W, so '<' at pointer 0 yields 2^W - 1; after 2^W
\* consecutive '>' steps the pointer is back at its original value, and not
\* before.
C13_PointerWraparound ==
    /\ last.op = ">" =>
          /\ Returned
          /\ pointer = IF last.pointer = AddrSpace - 1 THEN 0
                       ELSE last.pointer + 1
    /\ last.op = "<" =>
          /\ Returned
          /\ pointer = IF last.pointer = 0 THEN AddrSpace - 1
                       ELSE last.pointer - 1
    /\ (file = LapProgram /\ last.op = ">") =>
          (pointer = 0 <=> instruction_pointer = AddrSpace)

\* the last of 2^W consecutive '>' steps has wrapped the pointer to 0
C13_Witness ==
    /\ file = LapProgram
    /\ last.op = ">"
    /\ instruction_pointer = AddrSpace
    /\ last.pointer = AddrSpace - 1
    /\ pointer = 0
\* the runs of C14: n '+' followed by '.', against an empty input
StraightRun ==
    /\ file \in {StraightProgram(n) : n \in 1..(MaxCount + 1)}
    /\ stdin = <<>>

\* the unit of scalar value n, n the number of '+' of the program
StraightUnit == <<0, Len(file) - 1>>

\* every step so far dispatched the next instruction of the source and
\* advanced by one; a '.' accepted by the sink wrote the one unit n; the
\* only way the run ends is the exhaustion error of the fetch after '.'
StraightSoFar ==
    /\ last.op # "none" =>
          /\ Returned
          /\ instruction_pointer = last.ip + 1
          /\ last.op = file[instruction_pointer]
          /\ Len(instructions) = instruction_pointer
    /\ (last.op = "." /\ last.sink_ok) => writer = <<StraightUnit>>
    /\ writer \in {<<>>, <<StraightUnit>>}
    /\ instruction_pointer < Len(file) => writer = <<>>
    /\ ~Returned =>
          /\ status = "exhausted"
          /\ last.op = "none"
          /\ last.ip = Len(file)
          /\ instruction_pointer = Len(file)

StraightDone ==
    /\ status = "exhausted"
    /\ instruction_pointer = Len(file)
    /\ At(data, 0) = StraightUnit
    /\ writer = <<StraightUnit>>

C15_InstructionPointerInRange ==
    /\ instruction_pointer >= 0
    /\ instruction_pointer <= Len(instructions)
    /\ last.ip <= Len(last.pre_ins)
    /\ last.op # "none" =>
          /\ last.ip < Len(last.ins)
          /\ At(last.ins, last.ip) = last.op
    /\ last.op = "[" =>
          /\ last.ip + 1 <= Len(last.ins)
          /\ Len(last.ins) - 1 >= 0
          /\ \A i \in ForwardMatches(last.ins, last.ip) :
                last.ip + i < Len(last.ins)
    /\ last.op = "]" =>
          \A i \in BackwardMatches(last.ins, last.ip) : last.ip - i >= 0

\* the forward scan found a ']' and the jump was taken
C15_Witness ==
    /\ last.op = "["
    /\ LastCell = Zero
    /\ ClosesAfter(last.pre_ins) # {}
    /\ Returned
    /\ instruction_pointer > last.ip
IsPrefix(u, v) == Len(u) <= Len(v) /\ SubSeq(v, 1, Len(u)) = u

\* C16: over every step, returning success or an error, the materialized
\* instructions before the step are a prefix of those after it.
C16_AppendOnly == [][IsPrefix(instructions, instructions')]_vars

\* a step appended to instructions that were already materialized
C16_Witness ==
    /\ Len(last.pre_ins) > 0
    /\ Len(instructions) > Len(last.pre_ins)
    /\ IsPrefix(last.pre_ins, instructions)
\* the smallest Max(1, L) * 2^k with k >= 1 that is greater than p
DoubledLength(L, p) ==
    LET lengths == {Max(1, L) * (2 ^ k) : k \in 1..(AddrBits + 1)}
    IN  Least({n \in lengths : n > p})

\* the last step dispatched '+' or '-', or a ',' that returned success
WriteStep ==
    \/ last.op \in {"+", "-"}
    \/ last.op = "," /\ Returned

\* the value the last write step stores, from the value read before growth
WrittenValue ==
    IF last.op = "+" THEN Succ32(LastCell)
    ELSE IF last.op = "-" THEN Pred32(LastCell)
    ELSE stdin[input_iter]

\* C17: a '+', '-' or successful ',' step with tape pointer p and prior
\* storage length L leaves the length L if p < L and otherwise the smallest
\* Max(1, L) * 2^k, k >= 1, greater than p; the cells stored before keep
\* their values, the new cells other than the written one are 0, and the
\* written cell holds the value derived from the one read before growth.
C17_GrowthByDoubling ==
    WriteStep =>
        /\ Len(data) = IF last.pointer < Len(last.data) THEN Len(last.data)
                       ELSE DoubledLength(Len(last.data), last.pointer)
        /\ \A a \in 0..(Len(data) - 1) :
              a # last.pointer =>
                 At(data, a) = IF a < Len(last.data) THEN At(last.data, a)
                               ELSE Zero
        /\ At(data, last.pointer) = WrittenValue
\* C18: for every tape pointer value p in 0 .. 2^W - 1, also 2^W - 1
\* reached by '<' from pointer 0, a step that dispatches '+' or '-'
\* terminates with the storage longer than p and the cell at p updated.
C18_EveryAddressWritable ==
    \A p \in 0..(AddrSpace - 1) :
        (last.op \in {"+", "-"} /\ last.pointer = p) =>
            /\ status \notin {"panic", "hang"}
            /\ Len(data) > p
            /\ At(data, p) # LastCell
====
